---- MODULE Spec2Model ----
(***************************************************************************)
(* Model of the hex-grid drawing of iron_sandboxide (WorldGridManager) and *)
(* of its two entity managers (ObstacleManager, ResourceManager).          *)
(*                                                                         *)
(* Geometry.  Every angle the code uses is a multiple of PI/6, so an angle *)
(* is the integer n standing for n * PI/6.  Every point the code computes  *)
(* is center + a sum of vectors GRID_CELL_SIZE * (cos t, -sin t) with t a  *)
(* multiple of PI/3, or HEX_SIZE * (cos t, -sin t) with t an odd multiple  *)
(* of PI/6; both lie on the triangular lattice spanned by the unit vectors *)
(* at 0 and at PI/3.  A point is the pair <<a, b>> of its two lattice      *)
(* coordinates (exact arithmetic; f32 rounding is not modelled).           *)
(*                                                                         *)
(* Colors are records of the four channels in thousandths (1.0 is 1000).  *)
(***************************************************************************)
EXTENDS Integers, Sequences, FiniteSets, TLC

\* ------------------------------------------------------------------ bounds

\* Largest max_radial_distance the grid is constructed with.
MaxRadialDistance == 3

\* The hash tables are iterated in an order the hasher decides; the model
\* draws it from the rotations 0..MaxRotation of the insertion order.
MaxRotation == 1

\* --------------------------------------------------------------- constants

\* const GRID_CELL_SIZE: f32 = 30.0
GRID_CELL_SIZE == 30

\* The width literal 1.0 of both .line(..., 1.0, WHITE) calls, in thousandths.
LINE_WIDTH == 1000

WHITE == [r |-> 1000, g |-> 1000, b |-> 1000, a |-> 1000]

GREEN == [r |-> 0, g |-> 1000, b |-> 0, a |-> 1000]

BLACK == [r |-> 0, g |-> 0, b |-> 0, a |-> 1000]

RED == [r |-> 1000, g |-> 0, b |-> 0, a |-> 1000]

YELLOW == [r |-> 1000, g |-> 1000, b |-> 0, a |-> 1000]

BLUE == [r |-> 0, g |-> 0, b |-> 1000, a |-> 1000]

INDIGO == [r |-> 180, g |-> 168, b |-> 371, a |-> 1000]

CYAN == [r |-> 0, g |-> 1000, b |-> 1000, a |-> 1000]

BROWN == [r |-> 547, g |-> 273, b |-> 78, a |-> 1000]

IVORY == [r |-> 1000, g |-> 1000, b |-> 941, a |-> 1000]

GREY == [r |-> 500, g |-> 500, b |-> 500, a |-> 1000]

ORANGE == [r |-> 1000, g |-> 496, b |-> 0, a |-> 1000]

VIOLET == [r |-> 543, g |-> 0, b |-> 1000, a |-> 1000]

MAGENTA == [r |-> 1000, g |-> 0, b |-> 1000, a |-> 1000]

\* Every color constant of the colors module.
ColorConstants ==
    {BLACK, WHITE, GREY, RED, ORANGE, YELLOW, GREEN, BLUE, INDIGO, VIOLET,
     CYAN, MAGENTA, BROWN, IVORY}

\* colors::DARKGREY, the border of an obstacle's cells: a fixed dark color.
DARKGREY == [r |-> 250, g |-> 250, b |-> 250, a |-> 1000]

\* The variants of Element that from_element matches on.
Element ==
    {"Unset", "Fire", "Ice", "Wind", "Water", "Electric", "Earth", "Light",
     "Dark"}

\* What a call gives back: a value, or the panic that aborts it.
Returns(value) == [panics |-> FALSE, value |-> value]

Panics == [panics |-> TRUE, value |-> BLACK]

\* A match without the panicking arm: Unset gets a color like any variant.
from_element_total(elem) ==
    Returns(CASE elem = "Unset"    -> BLACK
              [] elem = "Fire"     -> RED
              [] elem = "Ice"      -> CYAN
              [] elem = "Wind"     -> GREEN
              [] elem = "Water"    -> BLUE
              [] elem = "Electric" -> YELLOW
              [] elem = "Earth"    -> BROWN
              [] elem = "Light"    -> IVORY
              [] elem = "Dark"     -> INDIGO)

\* A match whose last arm panics as well.
from_element_dark_panics(elem) ==
    IF elem \in {"Unset", "Dark"}
    THEN Panics
    ELSE from_element_total(elem)

\* pub fn from_element(elem: Element) -> ggez_gfx::Color
from_element(elem) ==
    CASE elem = "Unset"    -> Panics
      [] elem = "Fire"     -> Returns(RED)
      [] elem = "Ice"      -> Returns(CYAN)
      [] elem = "Wind"     -> Returns(GREEN)
      [] elem = "Water"    -> Returns(BLUE)
      [] elem = "Electric" -> Returns(YELLOW)
      [] elem = "Earth"    -> Returns(BROWN)
      [] elem = "Light"    -> Returns(IVORY)
      [] elem = "Dark"     -> Returns(INDIGO)

\* enum Direction
Direction ==
    {"EAST", "NORTHEAST", "NORTH", "NORTHWEST",
     "WEST", "SOUTHWEST", "SOUTH", "SOUTHEAST"}

\* The keys of HEX_SIDES in insertion order.
HEX_SIDES_KEYS ==
    <<"NORTHEAST", "NORTH", "NORTHWEST", "SOUTHWEST", "SOUTH", "SOUTHEAST">>

\* HEX_SIDES: direction -> angle of the side's midpoint, in units of PI/6.
HEX_SIDES ==
    [d \in {HEX_SIDES_KEYS[k] : k \in 1..Len(HEX_SIDES_KEYS)} |->
        CASE d = "NORTHEAST" -> 1
          [] d = "NORTH"     -> 3
          [] d = "NORTHWEST" -> 5
          [] d = "SOUTHWEST" -> 7
          [] d = "SOUTH"     -> 9
          [] d = "SOUTHEAST" -> 11]

\* The keys of HEX_VERTICES in insertion order.
HEX_VERTICES_KEYS ==
    <<"EAST", "NORTHEAST", "NORTHWEST", "WEST", "SOUTHWEST", "SOUTHEAST">>

\* HEX_VERTICES: direction -> angle of the vertex, in units of PI/6.
HEX_VERTICES ==
    [d \in {HEX_VERTICES_KEYS[k] : k \in 1..Len(HEX_VERTICES_KEYS)} |->
        CASE d = "EAST"      -> 0
          [] d = "NORTHEAST" -> 2
          [] d = "NORTHWEST" -> 4
          [] d = "WEST"      -> 6
          [] d = "SOUTHWEST" -> 8
          [] d = "SOUTHEAST" -> 10]

\* ---------------------------------------------------------------- geometry

\* (cos t, sin t) for t = k * PI/3, in lattice coordinates.
LatticeUnit ==
    <<<<1, 0>>, <<0, 1>>, <<-1, 1>>, <<-1, 0>>, <<0, -1>>, <<1, -1>>>>

\* len * (cos theta, sin theta) for theta an even multiple of PI/6.
Polar(len, theta) ==
    LET u == LatticeUnit[(((theta % 12) + 12) % 12) \div 2 + 1]
    IN  <<len * u[1], len * u[2]>>

\* HEX_SIZE * (cos theta, sin theta) for theta an odd multiple of PI/6, where
\* HEX_SIZE = Y_OFFSET * 2.0 = GRID_CELL_SIZE * sqrt(3): the vector is the sum
\* of the two lattice vectors of length GRID_CELL_SIZE at theta -+ PI/6.
HexSizePolar(theta) ==
    LET p == Polar(GRID_CELL_SIZE, theta - 1)
        q == Polar(GRID_CELL_SIZE, theta + 1)
    IN  <<p[1] + q[1], p[2] + q[2]>>

\* Point2 { x: p.x + v.x, y: p.y - v.y }: the screen's y axis points down, the
\* lattice keeps the mathematical orientation throughout.
Translate(p, v) == <<p[1] + v[1], p[2] + v[2]>>

Scale(k, v) == <<k * v[1], k * v[2]>>

Scale3(k, v) == <<k * v[1], k * v[2], k * v[3]>>

\* The k-th key of a table iterated from rotation rot of its insertion order.
IterKey(keys, rot, k) == keys[((k - 1 + rot) % Len(keys)) + 1]

\* ------------------------------------------------------------------- state

VARIABLES
    max_radial_distance,  \* WorldGridManager.max_radial_distance
    center,               \* the center draw_grid is called with
    sidesRot,             \* iteration order of HEX_SIDES (a rotation)
    verticesRot,          \* iteration order of HEX_VERTICES (a rotation)
    status,               \* "ready", "running" or "done": the draw_grid call
    stack,                \* call stack of draw_grid, innermost frame last
    mesh_builder,         \* the MeshBuilder: the lines added, in order
    calls,                \* calls made so far, per function and level
    color_args,           \* the colors the two recursive routines are started with
    instance,             \* the instance add_instance_to_mesh_builder is given
    outcome,              \* that call: not made, returned Ok, or panicked
    color_call,           \* a call of colors::from_element and its outcome
    obstacle_manager,     \* ObstacleManager: obstacles, obstacle_mesh
    resource_manager,     \* ResourceManager: resources, resource_mesh
    pushed,               \* every instance pushed, per manager, in push order
    panicked,             \* a panic has aborted the program
    eq_call               \* a comparison of two Directions and how far it got

gridVars ==
    <<max_radial_distance, center, sidesRot, verticesRot, status, stack,
      mesh_builder, calls, color_args>>

drawVars == <<instance, outcome, color_call>>

mgrVars == <<obstacle_manager, resource_manager, pushed, panicked>>

eqVars == <<eq_call>>

vars == <<gridVars, drawVars, mgrVars, eqVars>>

Levels == 0..(MaxRadialDistance + 1)

RecursiveFns == {"recursive_hex_draw", "recursive_spoke_draw"}

Centers == {<<0, 0>>, <<400, -90>>}

\* A stack frame: the function, its arguments, and where it stands (pc, and
\* i, the number of loop iterations completed plus one).
Frame(fn, color, pt, theta, level, pc) ==
    [fn |-> fn, color |-> color, pt |-> pt, theta |-> theta, level |-> level,
     pc |-> pc, i |-> 1]

Top == stack[Len(stack)]

Pop == SubSeq(stack, 1, Len(stack) - 1)

SetTop(f) == [stack EXCEPT ![Len(stack)] = f]

\* A line in the mesh builder: what .line(points, width, color) receives, and
\* which call added it (by, level, key).
Line(points, width, color, by, level, key) ==
    [points |-> points, width |-> width, color |-> color,
     by |-> by, level |-> level, key |-> key]

Called(fn, level) ==
    IF level \in Levels
    THEN [calls EXCEPT ![fn][level] = @ + 1]
    ELSE calls

\* ------------------------------------------------------ recursive_hex_draw

\* A final-level test that is off by one: the walk goes one level too far.
HexFinalLevelLate(level) == level = max_radial_distance + 1

\* if level == self.max_radial_distance { return; }
HexFinalLevel(level) == level = max_radial_distance

\* The two endpoints of the side at angle theta, translated by the level.
HexEndpoints(c, theta, level) ==
    LET endpt_a == Translate(c, Polar(GRID_CELL_SIZE, theta - 1))
        endpt_b == Translate(c, Polar(GRID_CELL_SIZE, theta + 1))
        shift   == Scale(level, HexSizePolar(theta))
    IN  <<Translate(endpt_a, shift), Translate(endpt_b, shift)>>

\* input_mesh.line(&[endpt_a, endpt_b], 1.0, WHITE): the color of a side,
\* whatever color the call was given.
HexLineColor(color) == WHITE

\* A recursive call that passes its own level on.
HexSameLevel(level) == level

\* self.recursive_hex_draw(color, center, level+1, input_mesh)
HexNextLevel(level) == level + 1

\* A recursive call that moves the center outwards, on top of the per-level
\* translation of the endpoints.
HexNextCenterMoved(c) == Translate(c, HexSizePolar(HEX_SIDES["NORTHEAST"]))

\* The center handed to the next level: the same center.
HexNextCenter(c) == c

HexExit ==
    /\ status = "running"
    /\ Top.fn = "recursive_hex_draw"
    /\ Top.pc = "body"
    /\ HexFinalLevel(Top.level)
    /\ stack' = Pop
    /\ UNCHANGED <<drawVars, mgrVars, eqVars, color_args,
                   max_radial_distance, center, sidesRot,
                   verticesRot, status,
                   mesh_builder, calls>>

\* One iteration of  for (_dir, theta) in HEX_SIDES.iter()
HexDrawSide ==
    /\ status = "running"
    /\ Top.fn = "recursive_hex_draw"
    /\ Top.pc = "body"
    /\ ~HexFinalLevel(Top.level)
    /\ Top.i <= Len(HEX_SIDES_KEYS)
    /\ LET dir   == IterKey(HEX_SIDES_KEYS, sidesRot, Top.i)
           theta == HEX_SIDES[dir]
       IN  mesh_builder' =
               Append(mesh_builder,
                      Line(HexEndpoints(Top.pt, theta, Top.level), LINE_WIDTH,
                           HexLineColor(Top.color), "recursive_hex_draw",
                           Top.level, dir))
    /\ stack' = SetTop([Top EXCEPT !.i = @ + 1])
    /\ UNCHANGED <<drawVars, mgrVars, eqVars, color_args,
                   max_radial_distance, center, sidesRot,
                   verticesRot, status,
                   calls>>

HexRecurse ==
    /\ status = "running"
    /\ Top.fn = "recursive_hex_draw"
    /\ Top.pc = "body"
    /\ ~HexFinalLevel(Top.level)
    /\ Top.i > Len(HEX_SIDES_KEYS)
    /\ stack' = Append(SetTop([Top EXCEPT !.pc = "return"]),
                       Frame("recursive_hex_draw", Top.color,
                             HexNextCenter(Top.pt), 0,
                             HexNextLevel(Top.level), "body"))
    /\ calls' = Called("recursive_hex_draw", HexNextLevel(Top.level))
    /\ UNCHANGED <<drawVars, mgrVars, eqVars, color_args,
                   max_radial_distance, center, sidesRot,
                   verticesRot, status,
                   mesh_builder>>

HexReturn ==
    /\ status = "running"
    /\ Top.fn = "recursive_hex_draw"
    /\ Top.pc = "return"
    /\ stack' = Pop
    /\ UNCHANGED <<drawVars, mgrVars, eqVars, color_args,
                   max_radial_distance, center, sidesRot,
                   verticesRot, status,
                   mesh_builder, calls>>

\* ---------------------------------------------------- recursive_spoke_draw

\* A final-level test that is off by one: the spokes go one level too far.
SpokeFinalLevelLate(level) == level = max_radial_distance + 1

\* A final-level test that stops the spokes one level early.
SpokeFinalLevelEarly(level) == level + 1 >= max_radial_distance

\* if level == self.max_radial_distance { return; }
SpokeFinalLevel(level) == level = max_radial_distance

\* endpoints[0..2]: the end of the stem, then of the two branches.
SpokeEndpoints(origin, theta) ==
    LET stem == Translate(origin, Polar(GRID_CELL_SIZE, theta))
    IN  <<stem,
          Translate(stem, Polar(GRID_CELL_SIZE, theta + 2)),
          Translate(stem, Polar(GRID_CELL_SIZE, theta - 2))>>

\* lines[0..2]
SpokeLines(origin, theta) ==
    LET e == SpokeEndpoints(origin, theta)
    IN  <<<<origin, e[1]>>, <<e[1], e[2]>>, <<e[1], e[3]>>>>

SpokeLineKeys == <<"stem", "branch1", "branch2">>

\* A spoke line drawn in the shaded color the call was given.
SpokeLineColorShaded(color) == color

\* input_mesh.line(&lines[i], 1.0, WHITE): the color of a spoke line,
\* whatever color the call was given.
SpokeLineColor(color) == WHITE

\* color.g = color.g - 0.1; color.r = color.r + 0.1;
SpokeFirstColor(color) == [color EXCEPT !.g = @ - 100, !.r = @ + 100]

\* A second branch shaded from the red channel, like the first one.
SpokeSecondColorFromRed(color) == [color EXCEPT !.r = @ + 100]

\* color.r = color.b + 0.1;  (on the color the first call was given)
SpokeSecondColor(color) == [color EXCEPT !.r = color.b + 100]

\* self.recursive_spoke_draw(color, endpoints[..], theta, level+1, input_mesh)
SpokeNextLevel(level) == level + 1

SpokeExit ==
    /\ status = "running"
    /\ Top.fn = "recursive_spoke_draw"
    /\ Top.pc = "body"
    /\ SpokeFinalLevel(Top.level)
    /\ stack' = Pop
    /\ UNCHANGED <<drawVars, mgrVars, eqVars, color_args,
                   max_radial_distance, center, sidesRot,
                   verticesRot, status,
                   mesh_builder, calls>>

\* One iteration of  for i in 0..=2
SpokeDrawLine ==
    /\ status = "running"
    /\ Top.fn = "recursive_spoke_draw"
    /\ Top.pc = "body"
    /\ ~SpokeFinalLevel(Top.level)
    /\ Top.i <= Len(SpokeLineKeys)
    /\ mesh_builder' =
           Append(mesh_builder,
                  Line(SpokeLines(Top.pt, Top.theta)[Top.i], LINE_WIDTH,
                       SpokeLineColor(Top.color), "recursive_spoke_draw",
                       Top.level, SpokeLineKeys[Top.i]))
    /\ stack' = SetTop([Top EXCEPT !.i = @ + 1])
    /\ UNCHANGED <<drawVars, mgrVars, eqVars, color_args,
                   max_radial_distance, center, sidesRot,
                   verticesRot, status,
                   calls>>

SpokeFirstCall ==
    /\ status = "running"
    /\ Top.fn = "recursive_spoke_draw"
    /\ Top.pc = "body"
    /\ ~SpokeFinalLevel(Top.level)
    /\ Top.i > Len(SpokeLineKeys)
    /\ LET color == SpokeFirstColor(Top.color)
       IN  stack' =
               Append(SetTop([Top EXCEPT !.pc = "second", !.color = color]),
                      Frame("recursive_spoke_draw", color,
                            SpokeEndpoints(Top.pt, Top.theta)[2], Top.theta,
                            SpokeNextLevel(Top.level), "body"))
    /\ calls' = Called("recursive_spoke_draw", SpokeNextLevel(Top.level))
    /\ UNCHANGED <<drawVars, mgrVars, eqVars, color_args,
                   max_radial_distance, center, sidesRot,
                   verticesRot, status,
                   mesh_builder>>

SpokeSecondCall ==
    /\ status = "running"
    /\ Top.fn = "recursive_spoke_draw"
    /\ Top.pc = "second"
    /\ LET color == SpokeSecondColor(Top.color)
       IN  stack' =
               Append(SetTop([Top EXCEPT !.pc = "return", !.color = color]),
                      Frame("recursive_spoke_draw", color,
                            SpokeEndpoints(Top.pt, Top.theta)[3], Top.theta,
                            SpokeNextLevel(Top.level), "body"))
    /\ calls' = Called("recursive_spoke_draw", SpokeNextLevel(Top.level))
    /\ UNCHANGED <<drawVars, mgrVars, eqVars, color_args,
                   max_radial_distance, center, sidesRot,
                   verticesRot, status,
                   mesh_builder>>

SpokeReturn ==
    /\ status = "running"
    /\ Top.fn = "recursive_spoke_draw"
    /\ Top.pc = "return"
    /\ stack' = Pop
    /\ UNCHANGED <<drawVars, mgrVars, eqVars, color_args,
                   max_radial_distance, center, sidesRot,
                   verticesRot, status,
                   mesh_builder, calls>>

\* --------------------------------------------------------------- draw_grid

\* The colors draw_grid starts the two routines with: WHITE for
\* recursive_hex_draw, spoke_color = GREEN for recursive_spoke_draw.
DrawGridColors == [hex |-> WHITE, spoke |-> GREEN]

\* Point2 { x: center.x + GRID_CELL_SIZE * cos, y: center.y - GRID_CELL_SIZE * sin }
SpokeOrigin(c, theta) == Translate(c, Polar(GRID_CELL_SIZE, theta))

DrawGrid ==
    /\ status = "ready"
    /\ status' = "running"
    /\ stack' = <<Frame("draw_grid", WHITE, center, 0, 0, "hex")>>
    /\ UNCHANGED <<drawVars, mgrVars, eqVars, color_args,
                   max_radial_distance, center, sidesRot,
                   verticesRot,
                   mesh_builder, calls>>

\* self.recursive_hex_draw(WHITE, center, 0, mesh_builder); color_args.hex
\* is WHITE in every draw_grid call.
DrawGridHex ==
    /\ status = "running"
    /\ Top.fn = "draw_grid"
    /\ Top.pc = "hex"
    /\ stack' = Append(SetTop([Top EXCEPT !.pc = "spokes"]),
                       Frame("recursive_hex_draw", color_args.hex, Top.pt, 0,
                             0, "body"))
    /\ calls' = Called("recursive_hex_draw", 0)
    /\ UNCHANGED <<drawVars, mgrVars, eqVars, color_args,
                   max_radial_distance, center, sidesRot,
                   verticesRot, status,
                   mesh_builder>>

\* One iteration of  for (_dir, theta) in HEX_VERTICES.iter()
DrawGridSpoke ==
    /\ status = "running"
    /\ Top.fn = "draw_grid"
    /\ Top.pc = "spokes"
    /\ Top.i <= Len(HEX_VERTICES_KEYS)
    /\ LET dir   == IterKey(HEX_VERTICES_KEYS, verticesRot, Top.i)
           theta == HEX_VERTICES[dir]
       IN  stack' =
               Append(SetTop([Top EXCEPT !.i = @ + 1]),
                      Frame("recursive_spoke_draw", color_args.spoke,
                            SpokeOrigin(Top.pt, theta), theta, 0, "body"))
    /\ calls' = Called("recursive_spoke_draw", 0)
    /\ UNCHANGED <<drawVars, mgrVars, eqVars, color_args,
                   max_radial_distance, center, sidesRot,
                   verticesRot, status,
                   mesh_builder>>

DrawGridReturn ==
    /\ status = "running"
    /\ Top.fn = "draw_grid"
    /\ Top.pc = "spokes"
    /\ Top.i > Len(HEX_VERTICES_KEYS)
    /\ stack' = Pop
    /\ status' = "done"
    /\ UNCHANGED <<drawVars, mgrVars, eqVars, color_args,
                   max_radial_distance, center, sidesRot,
                   verticesRot,
                   mesh_builder, calls>>

\* ------------------------------------------------- hex coordinates, cells

\* Largest number of coordinates in an obstacle's path.
MaxPathLen == 3

\* Largest radius of a resource.
MaxRadius == 2

\* Largest number of instances pushed to one manager.
MaxInstances == 2

Origin == <<0, 0, 0>>

\* The six sides of a hex cell (hex_directions::Side).
Side == {"NORTHEAST", "NORTH", "NORTHWEST", "SOUTHWEST", "SOUTH", "SOUTHEAST"}

\* The coordinates one step from the origin towards each side: the step whose
\* screen offset (ObstacleCenter below) points the way of that side.
SideStep ==
    [d \in Side |->
        CASE d = "NORTH"     -> <<0, 1, -1>>
          [] d = "NORTHEAST" -> <<1, 0, -1>>
          [] d = "SOUTHEAST" -> <<1, -1, 0>>
          [] d = "SOUTH"     -> <<0, -1, 1>>
          [] d = "SOUTHWEST" -> <<-1, 0, 1>>
          [] d = "NORTHWEST" -> <<-1, 1, 0>>]

CoordsAdd(p, q) == <<p[1] + q[1], p[2] + q[2], p[3] + q[3]>>

\* *prev_obstacle_coords - *obstacle_coords
CoordsSub(p, q) == <<p[1] - q[1], p[2] - q[2], p[3] - q[3]>>

\* hex_directions::Side::from(translation), for a step between neighbours.
SideFrom(delta) == CHOOSE d \in Side : SideStep[d] = delta

\* hex_directions::Side::get_adjacent_vertices(direction): the two vertices
\* that end the side.
AdjacentVertices(d) ==
    CASE d = "NORTHEAST" -> <<"EAST", "NORTHEAST">>
      [] d = "NORTH"     -> <<"NORTHEAST", "NORTHWEST">>
      [] d = "NORTHWEST" -> <<"NORTHWEST", "WEST">>
      [] d = "SOUTHWEST" -> <<"WEST", "SOUTHWEST">>
      [] d = "SOUTH"     -> <<"SOUTHWEST", "SOUTHEAST">>
      [] d = "SOUTHEAST" -> <<"SOUTHEAST", "EAST">>

\* Distance of a cell from the origin, in cells.
Abs(n) == IF n < 0 THEN -n ELSE n

HexDistance(p, q) ==
    (Abs(p[1] - q[1]) + Abs(p[2] - q[2]) + Abs(p[3] - q[3])) \div 2

\* What the mesh builder holds: filled cells and lines, in the order added.
\* A cell: HexGridCell::add_to_mesh(fill, border, builder).
Cell(cell_center, size, fill, border) ==
    [kind |-> "cell", center |-> cell_center, size |-> size, color |-> fill,
     border |-> border, side |-> "", points |-> <<>>,
     width |-> ""]

\* A line over one side of a cell: builder.line(&shared_line, width, color).
SideLine(cell_center, side, width, color) ==
    [kind |-> "line", center |-> cell_center, size |-> "", color |-> color,
     border |-> color, side |-> side,
     points |-> <<[cell |-> cell_center, vertex |-> AdjacentVertices(side)[1]],
                  [cell |-> cell_center, vertex |-> AdjacentVertices(side)[2]]>>,
     width |-> width]

\* An obstacle (cast_iron Obstacle: element(), all_coords()) or a resource
\* (cast_iron Resource: element(), origin(), radius()); a resource's coords
\* hold its origin alone, an obstacle's radius is not used.
Instance(kind, element, coords, radius) ==
    [kind |-> kind, element |-> element, coords |-> coords, radius |-> radius]

\* instance.origin()
InstanceOrigin(inst) == inst.coords[1]

\* The paths of n coordinates from the origin, each a neighbour of the last.
RECURSIVE Paths(_)
Paths(n) ==
    IF n <= 1
    THEN {<<Origin>>}
    ELSE {Append(q, CoordsAdd(q[Len(q)], SideStep[d])) :
              q \in Paths(n - 1), d \in Side}

ObstacleInstances ==
    {Instance("obstacle", e, q, 0) :
         e \in Element, q \in UNION {Paths(n) : n \in 1..MaxPathLen}}

ResourceInstances ==
    {Instance("resource", e, <<o>>, r) :
         e \in Element, o \in {Origin, <<1, 0, -1>>}, r \in 0..MaxRadius}

\* --------------------------------------------------------- ObstacleManager

\* (x_offset, y_offset) of a cell from the window's center: x in units of
\* CENTER_TO_VERTEX_DIST, y in units of CENTER_TO_SIDE_DIST, with
\* sin(Side::NORTHWEST) = 1/2 and sin(Side::SOUTHWEST) = -1/2.
ObstacleCenter(coords) == <<3 * coords[1], coords[3] - coords[2]>>

\* The side taken from the step in the wrong direction.
ObstacleSharedSideReversed(prev, cur) == SideFrom(CoordsSub(cur, prev))

\* let direction = hex_directions::Side::from(*prev - *obstacle_coords)
ObstacleSharedSide(prev, cur) == SideFrom(CoordsSub(prev, cur))

\* if i > 0, with i counted from 1 here
ObstacleHasPrevious(i) == i > 1

\* The loop of add_instance_to_mesh_builder from its i-th iteration on, on the
\* builder mb: the outcome of the call and the builder it leaves.
RECURSIVE ObstacleAddCoords(_, _, _)
ObstacleAddCoords(inst, mb, i) ==
    IF i > Len(inst.coords)
    THEN [result |-> "Ok", builder |-> mb]
    ELSE LET cur  == inst.coords[i]
             fill == from_element(inst.element)
         IN  IF fill.panics
             THEN [result |-> "panic", builder |-> mb]
             ELSE LET cur_hex == ObstacleCenter(cur)
                      mb1 == Append(mb, Cell(cur_hex, "GRID_CELL_SIZE",
                                             fill.value, DARKGREY))
                      mb2 == IF ObstacleHasPrevious(i)
                             THEN Append(mb1,
                                      SideLine(cur_hex,
                                          ObstacleSharedSide(inst.coords[i - 1], cur),
                                          "DEFAULT_LINE_WIDTH",
                                          from_element(inst.element).value))
                             ELSE mb1
                  IN  ObstacleAddCoords(inst, mb2, i + 1)

\* ObstacleManager::add_instance_to_mesh_builder(instance, mesh_builder, ctx)
ObstacleAddInstanceToMeshBuilder(inst, mb) == ObstacleAddCoords(inst, mb, 1)

\* --------------------------------------------------------- ResourceManager

\* colors::from_resource(instance): the color of the resource's element.
from_resource(inst) == from_element(inst.element)

\* The cells HexGridCell::add_radials_to_mesh adds around a cell: the rings at
\* distance 1..radius, ring by ring, each ring walked side by side.
RECURSIVE RingWalk(_, _, _, _)
RingWalk(cell, k, sideIdx, step) ==
    IF sideIdx > 6 THEN <<>>
    ELSE IF step > k THEN RingWalk(cell, k, sideIdx + 1, 1)
    ELSE <<cell>> \o
         RingWalk(CoordsAdd(cell, SideStep[HEX_SIDES_KEYS[((sideIdx + 1) % 6) + 1]]),
                  k, sideIdx, step + 1)

RECURSIVE RadialCells(_, _, _)
RadialCells(origin, k, radius) ==
    IF k > radius THEN <<>>
    ELSE RingWalk(CoordsAdd(origin, Scale3(k, SideStep[HEX_SIDES_KEYS[1]])), k, 1, 1)
         \o RadialCells(origin, k + 1, radius)

\* HexGridCell::add_radials_to_mesh(fill, border, radius, true, builder)
AddRadialsToMesh(origin, size, fill, border, radius, mb) ==
    LET cells == RadialCells(origin, 1, radius)
    IN  mb \o [k \in 1..Len(cells) |-> Cell(cells[k], size, fill, border)]

\* A radius that is one ring short.
ResourceRadialRadiusShort(inst) == IF inst.radius > 0 THEN inst.radius - 1 ELSE 0

\* instance.radius(), as handed to add_radials_to_mesh
ResourceRadialRadius(inst) == inst.radius

\* ResourceManager::add_instance_to_mesh_builder(instance, mesh_builder, ctx)
ResourceAddInstanceToMeshBuilder(inst, mb) ==
    LET fill == from_resource(inst)
    IN  IF fill.panics
        THEN [result |-> "panic", builder |-> mb]
        ELSE LET mb1 == Append(mb, Cell(InstanceOrigin(inst), "HEX_RADIUS_VERTEX",
                                        fill.value, WHITE))
             IN  [result |-> "Ok",
                  builder |-> AddRadialsToMesh(InstanceOrigin(inst),
                                               "HEX_RADIUS_VERTEX",
                                               from_resource(inst).value, WHITE,
                                               ResourceRadialRadius(inst), mb1)]

\* ------------------------------------------ add_instance_to_mesh_builder

\* The builders a call may be handed: a new one, or one that holds a cell.
GivenBuilders == {<<>>, <<Cell(<<3, 1>>, "GRID_CELL_SIZE", RED, DARKGREY)>>}

NotCalled(mb) == [result |-> "none", given |-> mb, builder |-> mb]

ObstacleAddInstance ==
    /\ instance.kind = "obstacle"
    /\ outcome.result = "none"
    /\ LET out == ObstacleAddInstanceToMeshBuilder(instance, outcome.given)
       IN  outcome' = [outcome EXCEPT !.result = out.result,
                                      !.builder = out.builder]
    /\ UNCHANGED <<gridVars, eqVars, mgrVars, instance, color_call>>

ResourceAddInstance ==
    /\ instance.kind = "resource"
    /\ outcome.result = "none"
    /\ LET out == ResourceAddInstanceToMeshBuilder(instance, outcome.given)
       IN  outcome' = [outcome EXCEPT !.result = out.result,
                                      !.builder = out.builder]
    /\ UNCHANGED <<gridVars, eqVars, mgrVars, instance, color_call>>

\* colors::from_element(instance.element())
FromElementCall ==
    /\ instance.kind = "obstacle"
    /\ ~color_call.called
    /\ color_call' = [called |-> TRUE, elem |-> instance.element,
                      result |-> from_element(instance.element)]
    /\ UNCHANGED <<gridVars, eqVars, mgrVars, instance, outcome>>

\* ------------------------------------------------- managers: push, set_mesh

\* ggez Mesh: built by Mesh::new_line in new(), or from a MeshBuilder.
NewLineMesh == [from |-> "new_line", primitives |-> <<>>]

BuildMesh(mb) == [from |-> "builder", primitives |-> mb]

\* ObstacleManager::new
ObstacleManagerNew == [obstacles |-> <<>>, obstacle_mesh |-> NewLineMesh]

\* ResourceManager::new
ResourceManagerNew == [resources |-> <<>>, resource_mesh |-> NewLineMesh]

\* One rebuild pass over a collection: a new builder, each instance added in
\* turn by the manager's add_instance_to_mesh_builder; a panic ends it.
RECURSIVE RebuildFrom(_, _, _, _)
RebuildFrom(kind, insts, mb, k) ==
    IF k > Len(insts)
    THEN [result |-> "Ok", builder |-> mb]
    ELSE LET out == IF kind = "obstacle"
                    THEN ObstacleAddInstanceToMeshBuilder(insts[k], mb)
                    ELSE ResourceAddInstanceToMeshBuilder(insts[k], mb)
         IN  IF out.result = "Ok"
             THEN RebuildFrom(kind, insts, out.builder, k + 1)
             ELSE out

Rebuild(kind, insts) == RebuildFrom(kind, insts, <<>>, 1)

\* A push that puts the instance at the front.
ObstaclePushFront(self, inst) ==
    [self EXCEPT !.obstacles = <<inst>> \o @]

\* fn push_instance(&mut self, instance): self.obstacles.push(instance)
ObstaclePushInstance(self, inst) ==
    [self EXCEPT !.obstacles = Append(@, inst)]

\* fn set_mesh(&mut self, mesh): self.obstacle_mesh = mesh
ObstacleSetMesh(self, m) == [self EXCEPT !.obstacle_mesh = m]

\* A push that rebuilds and stores the mesh as well.
ResourcePushRebuilding(self, inst) ==
    [self EXCEPT !.resources = Append(@, inst),
                 !.resource_mesh =
                     BuildMesh(Rebuild("resource", Append(self.resources, inst)).builder)]

\* fn push_instance(&mut self, instance): self.resources.push(instance)
ResourcePushInstance(self, inst) ==
    [self EXCEPT !.resources = Append(@, inst)]

\* fn set_mesh(&mut self, mesh): self.resource_mesh = mesh
ResourceSetMesh(self, m) == [self EXCEPT !.resource_mesh = m]

\* The instances the managers are given in the manager specification.
SampleObstacles ==
    {Instance("obstacle", "Fire", <<Origin, SideStep["NORTH"]>>, 0),
     Instance("obstacle", "Ice", <<Origin>>, 0),
     Instance("obstacle", "Unset", <<Origin>>, 0)}

SampleResources ==
    {Instance("resource", "Water", <<Origin>>, 1),
     Instance("resource", "Earth", <<SideStep["SOUTH"]>>, 0)}

\* Meshes a caller may hand to set_mesh besides a rebuilt one.
SampleMeshes == {NewLineMesh, BuildMesh(<<>>)}

ObstaclePush(inst) ==
    /\ ~panicked
    /\ Len(obstacle_manager.obstacles) < MaxInstances
    /\ obstacle_manager' = ObstaclePushInstance(obstacle_manager, inst)
    /\ pushed' = [pushed EXCEPT !.obstacle = Append(@, inst)]
    /\ UNCHANGED <<gridVars, eqVars, drawVars, resource_manager, panicked>>

ResourcePush(inst) ==
    /\ ~panicked
    /\ Len(resource_manager.resources) < MaxInstances
    /\ resource_manager' = ResourcePushInstance(resource_manager, inst)
    /\ pushed' = [pushed EXCEPT !.resource = Append(@, inst)]
    /\ UNCHANGED <<gridVars, eqVars, drawVars, obstacle_manager, panicked>>

ObstacleStoreMesh(m) ==
    /\ ~panicked
    /\ obstacle_manager' = ObstacleSetMesh(obstacle_manager, m)
    /\ UNCHANGED <<gridVars, eqVars, drawVars, resource_manager, pushed, panicked>>

ResourceStoreMesh(m) ==
    /\ ~panicked
    /\ resource_manager' = ResourceSetMesh(resource_manager, m)
    /\ UNCHANGED <<gridVars, eqVars, drawVars, obstacle_manager, pushed, panicked>>

\* The rebuild pass of the obstacles: every instance added to a new builder,
\* the built mesh stored with set_mesh; a panic aborts the program.
ObstacleUpdateMesh ==
    /\ ~panicked
    /\ LET out == Rebuild("obstacle", obstacle_manager.obstacles)
       IN  IF out.result = "Ok"
           THEN /\ obstacle_manager' =
                       ObstacleSetMesh(obstacle_manager, BuildMesh(out.builder))
                /\ UNCHANGED panicked
           ELSE /\ panicked' = TRUE
                /\ UNCHANGED obstacle_manager
    /\ UNCHANGED <<gridVars, eqVars, drawVars, resource_manager, pushed>>

\* The rebuild pass of the resources.
ResourceUpdateMesh ==
    /\ ~panicked
    /\ LET out == Rebuild("resource", resource_manager.resources)
       IN  IF out.result = "Ok"
           THEN /\ resource_manager' =
                       ResourceSetMesh(resource_manager, BuildMesh(out.builder))
                /\ UNCHANGED panicked
           ELSE /\ panicked' = TRUE
                /\ UNCHANGED resource_manager
    /\ UNCHANGED <<gridVars, eqVars, drawVars, obstacle_manager, pushed>>

\* ----------------------------------------------------------- Direction::eq

\* Nested calls of eq the stack holds before it overflows.
MaxEqDepth == 3

\* fn eq(&self, other: &Direction) -> bool { self == other }
\* The body compares the same two references with ==, which for &Direction
\* is Direction::eq again: what the body yields is one more call of eq.
DirectionEqBody(self, other) == [self |-> self, other |-> other]

NotCompared(self, other) ==
    [self |-> self, other |-> other, depth |-> 0, outcome |-> "ready"]

\* a == b for two Directions, as a HashMap<Direction, f32> does when it
\* compares a key with another of the same hash.
DirectionEqCall ==
    /\ eq_call.outcome = "ready"
    /\ eq_call' = [eq_call EXCEPT !.outcome = "running", !.depth = 1]
    /\ UNCHANGED <<gridVars, drawVars, mgrVars>>

\* The body of eq runs: it calls eq.
DirectionEqRecurse ==
    /\ eq_call.outcome = "running"
    /\ eq_call.depth < MaxEqDepth
    /\ LET body == DirectionEqBody(eq_call.self, eq_call.other)
       IN  eq_call' = [eq_call EXCEPT !.self = body.self,
                                      !.other = body.other,
                                      !.depth = @ + 1]
    /\ UNCHANGED <<gridVars, drawVars, mgrVars>>

\* The stack is exhausted and the process is aborted.
DirectionEqOverflow ==
    /\ eq_call.outcome = "running"
    /\ eq_call.depth = MaxEqDepth
    /\ eq_call' = [eq_call EXCEPT !.outcome = "stack overflow"]
    /\ UNCHANGED <<gridVars, drawVars, mgrVars>>

\* ----------------------------------------------------------- specification

\* No draw_grid call: a grid that is constructed and left alone.
GridIdle ==
    /\ max_radial_distance = 0
    /\ center = <<0, 0>>
    /\ sidesRot = 0
    /\ verticesRot = 0
    /\ status = "unused"
    /\ stack = <<>>
    /\ mesh_builder = <<>>
    /\ calls = [fn \in RecursiveFns |-> [l \in Levels |-> 0]]
    /\ color_args = DrawGridColors

\* No add_instance_to_mesh_builder call.
DrawIdle ==
    /\ instance = Instance("obstacle", "Fire", <<Origin>>, 0)
    /\ outcome = [result |-> "unused", given |-> <<>>, builder |-> <<>>]
    /\ color_call = [called |-> FALSE, elem |-> "Fire", result |-> Panics]

\* ObstacleManager::new, ResourceManager::new
ManagersNew ==
    /\ obstacle_manager = ObstacleManagerNew
    /\ resource_manager = ResourceManagerNew
    /\ pushed = [obstacle |-> <<>>, resource |-> <<>>]
    /\ panicked = FALSE

\* No comparison of Directions.
EqIdle ==
    eq_call = [self |-> "EAST", other |-> "EAST", depth |-> 0,
               outcome |-> "unused"]

\* WorldGridManager::new(max_radial_distance), an empty MeshBuilder.
Init ==
    /\ max_radial_distance \in 0..MaxRadialDistance
    /\ center \in Centers
    /\ sidesRot \in 0..MaxRotation
    /\ verticesRot \in 0..MaxRotation
    /\ status = "ready"
    /\ stack = <<>>
    /\ mesh_builder = <<>>
    /\ calls = [fn \in RecursiveFns |-> [l \in Levels |-> 0]]
    /\ color_args = DrawGridColors
    /\ DrawIdle
    /\ ManagersNew
    /\ EqIdle

Next ==
    \/ DrawGrid
    \/ DrawGridHex
    \/ DrawGridSpoke
    \/ DrawGridReturn
    \/ HexExit
    \/ HexDrawSide
    \/ HexRecurse
    \/ HexReturn
    \/ SpokeExit
    \/ SpokeDrawLine
    \/ SpokeFirstCall
    \/ SpokeSecondCall
    \/ SpokeReturn

\* One draw_grid call of one WorldGridManager.
Spec == Init /\ [][Next]_vars

\* The program runs on one thread and always takes its next step.
FairSpec == Spec /\ WF_vars(Next)

\* Colors the two private routines may be started with, beside the ones
\* draw_grid uses.
SampleColors == {WHITE, GREEN, RED}

\* As Init, with the two routines started with any of the sample colors.
InitColors ==
    /\ max_radial_distance \in 0..MaxRadialDistance
    /\ center \in Centers
    /\ sidesRot \in 0..MaxRotation
    /\ verticesRot = sidesRot
    /\ status = "ready"
    /\ stack = <<>>
    /\ mesh_builder = <<>>
    /\ calls = [fn \in RecursiveFns |-> [l \in Levels |-> 0]]
    /\ color_args \in [hex : SampleColors, spoke : SampleColors]
    /\ DrawIdle
    /\ ManagersNew
    /\ EqIdle

\* One draw_grid call whose two routines are started with colors of any kind.
SpecColors == InitColors /\ [][Next]_vars

\* Two Directions about to be compared.
InitEq ==
    /\ GridIdle
    /\ DrawIdle
    /\ ManagersNew
    /\ eq_call \in {NotCompared(a, b) : a \in Direction, b \in Direction}

NextEq ==
    \/ DirectionEqCall
    \/ DirectionEqRecurse
    \/ DirectionEqOverflow

\* One comparison of two Directions.
SpecEq == InitEq /\ [][NextEq]_vars

\* An instance and a builder, before add_instance_to_mesh_builder is called.
InitDraw ==
    /\ GridIdle
    /\ EqIdle
    /\ ManagersNew
    /\ instance \in ObstacleInstances \cup ResourceInstances
    /\ outcome \in {NotCalled(mb) : mb \in GivenBuilders}
    /\ color_call = [called |-> FALSE, elem |-> instance.element,
                     result |-> Panics]

NextDraw ==
    \/ ObstacleAddInstance
    \/ ResourceAddInstance
    \/ FromElementCall

\* One add_instance_to_mesh_builder call on one instance.
SpecDraw == InitDraw /\ [][NextDraw]_vars

InitManagers ==
    /\ GridIdle
    /\ EqIdle
    /\ DrawIdle
    /\ ManagersNew

NextManagers ==
    \/ \E inst \in SampleObstacles : ObstaclePush(inst)
    \/ \E inst \in SampleResources : ResourcePush(inst)
    \/ \E m \in SampleMeshes : ObstacleStoreMesh(m)
    \/ \E m \in SampleMeshes : ResourceStoreMesh(m)
    \/ ObstacleUpdateMesh
    \/ ResourceUpdateMesh

\* The two managers, from construction on.
SpecManagers == InitManagers /\ [][NextManagers]_vars

\* ------------------------------------------------------------ grid claims

LinesBy(fn) == {k \in DOMAIN mesh_builder : mesh_builder[k].by = fn}

LinesAt(fn, level) == {k \in LinesBy(fn) : mesh_builder[k].level = level}

RECURSIVE Pow2(_)
Pow2(n) == IF n <= 0 THEN 1 ELSE 2 * Pow2(n - 1)

\* The call recursive_hex_draw(WHITE, center, 0, ..) of draw_grid has returned.
HexDrawReturned ==
    \/ status = "done"
    \/ /\ status = "running"
       /\ stack[1].pc = "spokes"
       /\ \A k \in DOMAIN stack : stack[k].fn # "recursive_hex_draw"

\* C1: for R > 0, recursive_hex_draw started at level 0 emits exactly 6 * R
\* lines: exactly 6 at each level 0..R-1, one per entry of HEX_SIDES, and none
\* at level R.
C1_HexDrawEmitsSixPerLevel ==
    (max_radial_distance > 0 /\ HexDrawReturned) =>
        /\ Cardinality(LinesBy("recursive_hex_draw")) = 6 * max_radial_distance
        /\ \A l \in 0..(max_radial_distance - 1) :
              /\ Cardinality(LinesAt("recursive_hex_draw", l)) = 6
              /\ {mesh_builder[k].key : k \in LinesAt("recursive_hex_draw", l)}
                     = DOMAIN HEX_SIDES
        /\ \A k \in LinesBy("recursive_hex_draw") :
              mesh_builder[k].level < max_radial_distance

C1_Witness ==
    /\ HexDrawReturned
    /\ max_radial_distance = MaxRadialDistance
    /\ max_radial_distance >= 2
    /\ Cardinality(LinesBy("recursive_hex_draw")) = 6 * max_radial_distance

\* C2: for R > 0, the spoke drawing of draw_grid emits 6 * 3 * (2^R - 1) lines
\* in all: recursive_spoke_draw is called once at level 0 for each entry of
\* HEX_VERTICES, every call at a level below R emits 3 lines and makes exactly
\* 2 calls at level + 1, and no line is emitted at level R.
C2_SpokeDrawEmitsBinaryTree ==
    (max_radial_distance > 0 /\ status = "done") =>
        /\ Cardinality(LinesBy("recursive_spoke_draw"))
               = 6 * 3 * (Pow2(max_radial_distance) - 1)
        /\ calls["recursive_spoke_draw"][0] = Cardinality(DOMAIN HEX_VERTICES)
        /\ \A l \in 0..(max_radial_distance - 1) :
              /\ Cardinality(LinesAt("recursive_spoke_draw", l))
                     = 3 * calls["recursive_spoke_draw"][l]
              /\ calls["recursive_spoke_draw"][l + 1]
                     = 2 * calls["recursive_spoke_draw"][l]
        /\ \A k \in LinesBy("recursive_spoke_draw") :
              mesh_builder[k].level < max_radial_distance

C2_Witness ==
    /\ status = "done"
    /\ max_radial_distance = MaxRadialDistance
    /\ max_radial_distance >= 2
    /\ Cardinality(LinesBy("recursive_spoke_draw"))
           = 18 * (Pow2(max_radial_distance) - 1)

\* C3: with max_radial_distance = 0 draw_grid adds no line to the mesh
\* builder, neither a ring line nor a spoke line, whatever the center.
C3_ZeroRadiusEmitsNothing ==
    max_radial_distance = 0 => mesh_builder = <<>>

C3_Witness ==
    /\ max_radial_distance = 0
    /\ status = "done"
    /\ center # <<0, 0>>
    /\ calls["recursive_hex_draw"][0] = 1
    /\ calls["recursive_spoke_draw"][0] = 6
    /\ mesh_builder = <<>>

\* Every frame of a recursive routine stands one level above its caller's,
\* the first at level 0, and none beyond max_radial_distance.
LevelsStepByOne ==
    \A k \in DOMAIN stack :
        stack[k].fn \in RecursiveFns =>
            /\ k > 1
            /\ stack[k].level \in 0..max_radial_distance
            /\ stack[k - 1].fn = "draw_grid" => stack[k].level = 0
            /\ stack[k - 1].fn # "draw_grid" =>
                  /\ stack[k - 1].fn = stack[k].fn
                  /\ stack[k].level = stack[k - 1].level + 1
            /\ stack[k].level = k - 2

Segment(line) ==
    [points |-> line.points, width |-> line.width, color |-> line.color]

Segments(seq) == [k \in DOMAIN seq |-> Segment(seq[k])]

\* The multiset of the elements of a sequence.
BagOfSeq(seq) ==
    [x \in {seq[k] : k \in DOMAIN seq} |->
        Cardinality({k \in DOMAIN seq : seq[k] = x})]

WhiteSegment(points) ==
    [points |-> points, width |-> LINE_WIDTH, color |-> WHITE]

\* The ring segments with the side table read in the order rot.
RingsInOrder(rot) ==
    [n \in 1..(Len(HEX_SIDES_KEYS) * max_radial_distance) |->
        LET level == (n - 1) \div Len(HEX_SIDES_KEYS)
            dir   == IterKey(HEX_SIDES_KEYS, rot,
                             ((n - 1) % Len(HEX_SIDES_KEYS)) + 1)
        IN  WhiteSegment(HexEndpoints(center, HEX_SIDES[dir], level))]

\* The segments of the spoke tree rooted at origin.
RECURSIVE SpokeTree(_, _, _)
SpokeTree(origin, theta, level) ==
    IF level >= max_radial_distance
    THEN <<>>
    ELSE LET e == SpokeEndpoints(origin, theta)
             l == SpokeLines(origin, theta)
         IN  <<WhiteSegment(l[1]), WhiteSegment(l[2]), WhiteSegment(l[3])>>
                 \o SpokeTree(e[2], theta, level + 1)
                 \o SpokeTree(e[3], theta, level + 1)

\* The spoke segments with the vertex table read in the order rot, from the
\* k-th key read on.
RECURSIVE SpokesInOrder(_, _)
SpokesInOrder(rot, k) ==
    IF k > Len(HEX_VERTICES_KEYS)
    THEN <<>>
    ELSE LET theta == HEX_VERTICES[IterKey(HEX_VERTICES_KEYS, rot, k)]
         IN  SpokeTree(SpokeOrigin(center, theta), theta, 0)
                 \o SpokesInOrder(rot, k + 1)

\* What draw_grid emits for the two iteration orders, as a function of the
\* center, max_radial_distance and the orders alone.
SegmentsInOrder(sides, vertices) ==
    RingsInOrder(sides) \o SpokesInOrder(vertices, 1)

\* Both tables read in insertion order.
SegmentsInTableOrder == SegmentsInOrder(0, 0)

\* Ring lines come first in the builder, six per level, level after level;
\* every line after them is a spoke line.
RingsThenSpokes ==
    \A k \in DOMAIN mesh_builder :
        IF k <= Len(HEX_SIDES_KEYS) * max_radial_distance
        THEN /\ mesh_builder[k].by = "recursive_hex_draw"
             /\ mesh_builder[k].level = (k - 1) \div Len(HEX_SIDES_KEYS)
        ELSE mesh_builder[k].by = "recursive_spoke_draw"

RECURSIVE ColorReceived(_)
ColorReceived(k) ==
    IF stack[k - 1].fn = "draw_grid"
    THEN GREEN
    ELSE LET parent == ColorReceived(k - 1)
         IN  IF stack[k - 1].pc = "second"
             THEN [r |-> parent.r + 100, g |-> parent.g - 100,
                   b |-> parent.b, a |-> parent.a]
             ELSE [r |-> parent.b + 100, g |-> parent.g - 100,
                   b |-> parent.b, a |-> parent.a]

\* A call of recursive_spoke_draw has just been entered: its color is still
\* the one it was given.
SpokeEntered ==
    /\ status = "running"
    /\ Top.fn = "recursive_spoke_draw"
    /\ Top.pc = "body"

SecondBranchEntered == SpokeEntered /\ stack[Len(stack) - 1].pc = "return"

\* C12: every call of recursive_spoke_draw is given the color the rule above
\* yields: green drops by 0.1 per level, so a call at level L has green
\* 1 - 0.1 * L; a first branch has its parent's red plus 0.1; a second branch
\* has red 0.1 (blue plus 0.1) at every depth; blue and alpha stay GREEN's.
C12_SpokeShading ==
    SpokeEntered =>
        /\ Top.color = ColorReceived(Len(stack))
        /\ Top.color.g = GREEN.g - 100 * Top.level
        /\ Top.color.b = GREEN.b
        /\ Top.color.a = GREEN.a
        /\ SecondBranchEntered => Top.color.r = 100

\* A second branch at level 2 below a first branch: red is 0.1, not 0.3.
C12_Witness ==
    /\ SecondBranchEntered
    /\ Top.level = 2
    /\ stack[Len(stack) - 2].pc = "second"
    /\ Top.color = [r |-> 100, g |-> 800, b |-> 0, a |-> 1000]

\* C13: every line draw_grid emits has width 1.0 and color WHITE, whatever
\* colors recursive_hex_draw and recursive_spoke_draw are started with and
\* however the spokes are shaded; the emitted sequence is a function of the
\* center, max_radial_distance and the iteration orders alone, so runs that
\* differ only in the colors passed emit the same sequence.
C13_ColorsNeverReachSegments ==
    /\ \A k \in DOMAIN mesh_builder :
           /\ mesh_builder[k].width = LINE_WIDTH
           /\ mesh_builder[k].color = WHITE
    /\ status = "done" =>
           Segments(mesh_builder) = SegmentsInOrder(sidesRot, verticesRot)

\* A run started with other colors than draw_grid's, with shaded spokes.
C13_Witness ==
    /\ status = "done"
    /\ max_radial_distance >= 2
    /\ color_args.hex # WHITE
    /\ color_args.spoke \notin {WHITE, GREEN}
    /\ Len(mesh_builder) > 0
    /\ Segments(mesh_builder) = SegmentsInOrder(sidesRot, verticesRot)

\* C14: a comparison of two Directions ends, never by an abort, and its
\* value is true exactly when the two are the same variant.
C14_DirectionEqReturns ==
    /\ eq_call.outcome \in {"unused", "ready", "running", "true", "false"}
    /\ eq_call.outcome = "true" => eq_call.self = eq_call.other
    /\ eq_call.outcome = "false" => eq_call.self # eq_call.other

\* --------------------------------------------------------- manager claims

\* What the add_instance_to_mesh_builder call added to the builder it was given.
Added ==
    SubSeq(outcome.builder, Len(outcome.given) + 1, Len(outcome.builder))

GivenKept ==
    /\ Len(outcome.builder) >= Len(outcome.given)
    /\ SubSeq(outcome.builder, 1, Len(outcome.given)) = outcome.given

OfKind(seq, kind) == {k \in DOMAIN seq : seq[k].kind = kind}

\* C4: for an obstacle of N coordinates the call adds N cells, one per
\* coordinate in path order, and N - 1 override lines: none for the first
\* coordinate, one right after the cell of every later coordinate, on that
\* cell's side towards the previous coordinate (the side of previous - current).
C4_ObstacleCellsAndSharedSides ==
    (instance.kind = "obstacle" /\ outcome.result = "Ok") =>
        LET n == Len(instance.coords)
            added == Added
        IN  /\ GivenKept
            /\ Len(added) = 2 * n - 1
            /\ Cardinality(OfKind(added, "cell")) = n
            /\ Cardinality(OfKind(added, "line")) = n - 1
            /\ added[1].kind = "cell"
            /\ added[1].center = ObstacleCenter(instance.coords[1])
            /\ \A i \in 2..n :
                  LET cur  == instance.coords[i]
                      prev == instance.coords[i - 1]
                      cell == added[2 * i - 2]
                      line == added[2 * i - 1]
                  IN  /\ cell.kind = "cell"
                      /\ cell.center = ObstacleCenter(cur)
                      /\ line.kind = "line"
                      /\ line.center = ObstacleCenter(cur)
                      /\ line.side = SideFrom(CoordsSub(prev, cur))
                      /\ CoordsAdd(cur, SideStep[line.side]) = prev
                      /\ line.color = cell.color

C4_Witness ==
    /\ instance.kind = "obstacle"
    /\ outcome.result = "Ok"
    /\ Len(instance.coords) = MaxPathLen
    /\ MaxPathLen >= 3
    /\ instance.coords[3] # instance.coords[1]
    /\ outcome.given # <<>>
    /\ Cardinality(OfKind(Added, "line")) = MaxPathLen - 1

\* C5: for a resource of radius r the call adds one cell at the resource's
\* origin and then the radial cells of radius r: 1 + (radial cell count for r)
\* cells, reaching every distance 1..r from the origin and none beyond, all
\* filled with the color of the resource's element.
C5_ResourceCellsShareElementColor ==
    (instance.kind = "resource" /\ outcome.result = "Ok") =>
        LET added  == Added
            origin == InstanceOrigin(instance)
            r      == instance.radius
        IN  /\ GivenKept
            /\ Len(added) = 1 + Len(RadialCells(origin, 1, r))
            /\ added[1].center = origin
            /\ \A k \in DOMAIN added :
                  /\ added[k].kind = "cell"
                  /\ added[k].color = from_element(instance.element).value
                  /\ k > 1 => HexDistance(added[k].center, origin) \in 1..r
            /\ \A d \in 1..r :
                  \E k \in DOMAIN added : HexDistance(added[k].center, origin) = d

C5_Witness ==
    /\ instance.kind = "resource"
    /\ outcome.result = "Ok"
    /\ instance.radius = MaxRadius
    /\ MaxRadius >= 2
    /\ instance.element = "Earth"
    /\ Len(Added) > 7
    /\ \A k \in DOMAIN Added : Added[k].color = BROWN

\* C6: from_element gives every variant other than Unset one of the color
\* constants, without a panic, and panics for Unset alone.
C6_FromElementPanicsOnlyOnUnset ==
    color_call.called =>
        /\ color_call.result.panics <=> color_call.elem = "Unset"
        /\ ~color_call.result.panics =>
              color_call.result.value \in ColorConstants

C6_Witness ==
    /\ color_call.called
    /\ color_call.elem = "Dark"
    /\ ~color_call.result.panics
    /\ color_call.result.value = INDIGO

\* C7: a new manager holds no instance, and from then on instances() is the
\* sequence of the instances pushed, in push order: a push appends at the end
\* and leaves the earlier entries and the mesh as they were, set_mesh leaves
\* the collection as it was, nothing removes or reorders.
C7_InstancesArePushedInOrder ==
    /\ obstacle_manager.obstacles = <<>> /\ resource_manager.resources = <<>>
    /\ [](/\ obstacle_manager.obstacles = pushed.obstacle
          /\ resource_manager.resources = pushed.resource)
    /\ [][/\ \/ obstacle_manager'.obstacles = obstacle_manager.obstacles
             \/ /\ Len(obstacle_manager'.obstacles)
                       = Len(obstacle_manager.obstacles) + 1
                /\ SubSeq(obstacle_manager'.obstacles, 1,
                          Len(obstacle_manager.obstacles))
                       = obstacle_manager.obstacles
                /\ obstacle_manager'.obstacle_mesh
                       = obstacle_manager.obstacle_mesh
          /\ \/ resource_manager'.resources = resource_manager.resources
             \/ /\ Len(resource_manager'.resources)
                       = Len(resource_manager.resources) + 1
                /\ SubSeq(resource_manager'.resources, 1,
                          Len(resource_manager.resources))
                       = resource_manager.resources
                /\ resource_manager'.resource_mesh
                       = resource_manager.resource_mesh]_vars

C7_Witness ==
    /\ Len(obstacle_manager.obstacles) >= 2
    /\ obstacle_manager.obstacles[1] # obstacle_manager.obstacles[2]
    /\ obstacle_manager.obstacle_mesh.from = "builder"
    /\ Len(resource_manager.resources) >= 1
    /\ obstacle_manager.obstacles = pushed.obstacle

\* The mesh a full rebuild pass over a collection gives.
RebuiltMesh(kind, insts) == BuildMesh(Rebuild(kind, insts).builder)

\* C8, as claimed: whenever an instance is added to a manager its mesh is
\* rebuilt, so that after the add mesh() reflects the whole collection.
C8_AddRebuildsMesh ==
    [][/\ obstacle_manager'.obstacles # obstacle_manager.obstacles =>
              obstacle_manager'.obstacle_mesh
                  = RebuiltMesh("obstacle", obstacle_manager'.obstacles)
       /\ resource_manager'.resources # resource_manager.resources =>
              resource_manager'.resource_mesh
                  = RebuiltMesh("resource", resource_manager'.resources)]_vars

\* C8, amended: push_instance does not rebuild: after it mesh() is still the
\* mesh stored before the add; the mesh reflects the whole collection, the
\* new instance included, once a rebuild pass has stored its mesh.
C8_PushKeepsMeshUntilRebuild ==
    [][/\ obstacle_manager'.obstacles # obstacle_manager.obstacles =>
              obstacle_manager'.obstacle_mesh = obstacle_manager.obstacle_mesh
       /\ resource_manager'.resources # resource_manager.resources =>
              resource_manager'.resource_mesh = resource_manager.resource_mesh
       /\ (ObstacleUpdateMesh /\ ~panicked') =>
              obstacle_manager'.obstacle_mesh
                  = RebuiltMesh("obstacle", obstacle_manager'.obstacles)
       /\ (ResourceUpdateMesh /\ ~panicked') =>
              resource_manager'.resource_mesh
                  = RebuiltMesh("resource", resource_manager'.resources)]_vars

\* A push after a rebuild: the mesh is the one of the collection before it.
C8_Witness ==
    /\ Len(resource_manager.resources) = 2
    /\ resource_manager.resource_mesh
           = RebuiltMesh("resource", SubSeq(resource_manager.resources, 1, 1))
    /\ resource_manager.resource_mesh
           # RebuiltMesh("resource", resource_manager.resources)

\* C9, as claimed: add_instance_to_mesh_builder always returns Ok(()), for
\* every obstacle and every resource, and never aborts.
C9_AddInstanceAlwaysOk ==
    outcome.result \in {"unused", "none", "Ok"}

\* C9, amended: the call never returns the manager's error value; it returns
\* Ok(()) for every obstacle and resource whose element is not Unset, and for
\* an obstacle whose element is Unset it aborts with from_element's panic,
\* leaving the builder as given.
C9_AddInstanceOkUnlessUnset ==
    outcome.result \notin {"unused", "none"} =>
        /\ outcome.result \in {"Ok", "panic"}
        /\ instance.element # "Unset" => outcome.result = "Ok"
        /\ (instance.kind = "obstacle" /\ instance.element = "Unset") =>
              /\ outcome.result = "panic"
              /\ outcome.builder = outcome.given

C9_Witness ==
    /\ instance.kind = "obstacle"
    /\ instance.element = "Unset"
    /\ Len(instance.coords) = 2
    /\ outcome.result = "panic"

====
